---- MODULE Spec2Model ----
(***************************************************************************)
(* Model of sample-golang-custom-handler (src/server.go).                  *)
(*                                                                         *)
(* src/server.go holds two programs.  Program 1 (lines 1-192) puts         *)
(* App.transactionMiddleware on the global middleware chain.  Program 2    *)
(* (lines 194-418) wraps single routes in TransactionHandlerC or           *)
(* AppHandlerC.  Both run behind recoverMiddleware and loggingMiddleware.  *)
(* One behaviour of the model is one run of one of the two programs,       *)
(* serving NumReq concurrent requests (one goroutine per request).         *)
(***************************************************************************)
EXTENDS Integers, Sequences, FiniteSets, TLC

\* Number of concurrent requests served in one run.
NumReq == 2

Req == 1..NumReq

\* ctxTxKey: the context holds at most one value, under this key.
ctxTxKey == "tx"

StatusOK == 200
StatusInternalServerError == 500

\* The nil *sql.Tx that DB.Begin returns together with an error.
NilTx == 0

\* Value of a handle variable that was never assigned.
Unset == -1

\* What ctx.Value returns for a key the context does not hold (nil interface).
NoValue == -2

VARIABLES
  prog,       \* which of the two programs runs: 1 or 2
  alive,      \* FALSE once log.Fatal has ended the process
  pc,         \* pc[r]: position of request r's goroutine
  route,      \* route[r]: the path requested ("" before arrival)
  tx,         \* tx[r]: the local variable tx of the wrapper (Unset before Begin)
  beginErr,   \* beginErr[r]: the local variable err of the wrapper after Begin
  ctx,        \* ctx[r]: the request's context, a set of <<key, value>> pairs
  seenTx,     \* seenTx[r]: what getTx(ctx) returned to the handler (Unset if not called)
  hres,       \* hres[r]: the (status, err) pair returned by the handler
  panicking,  \* panicking[r]: a panic is unwinding the goroutine of r
  resp,       \* resp[r]: the http.ResponseWriter of r
  events,     \* events[r]: history of what happened in request r, in order
  txState,    \* txState[h]: state of the transaction with handle h
  txCalls,    \* txCalls[h]: the Commit/Rollback calls made on handle h, in order
  cancelled   \* cancelled[r]: "no", or whether r was holding an open transaction
              \* when its client went away

vars == <<prog, alive, pc, route, tx, beginErr, ctx, seenTx, hres, panicking,
          resp, events, txState, txCalls, cancelled>>

----------------------------------------------------------------------------
(* Routing tables of the two main functions. *)

Routes1 == {"/api/echo/server", "/api/echo/database"}

Routes2 == {"/api/echo/server", "/api/echo/database", "/api/hello/context1",
            "/api/hello/context2", "/api/hello/context3", "/api/select/tran",
            "/api/select/notran"}

Routes(p) == IF p = 1 THEN Routes1 ELSE Routes2

\* The handler function registered for a route.
HandlerOf(p, rt) ==
  IF p = 1
  THEN IF rt = "/api/echo/server" THEN "EchoServer1" ELSE "EchoDatabase1"
  ELSE CASE rt = "/api/echo/server"    -> "EchoServer"
         [] rt = "/api/echo/database"  -> "EchoDatabase"
         [] rt = "/api/hello/context1" -> "helloctx"
         [] rt = "/api/hello/context2" -> "helloret"
         [] rt = "/api/hello/context3" -> "hellotran"
         [] rt = "/api/select/tran"    -> "tranSelect"
         [] OTHER                      -> "notranSelect"

\* A program 2 that also registers /api/echo/server under TransactionHandlerC.
WrapperOfEchoTx(p, rt) ==
  IF p = 1
  THEN "mw"
  ELSE CASE rt \in {"/api/echo/server", "/api/echo/database", "/api/hello/context3",
                    "/api/select/tran"} -> "thc"
         [] rt = "/api/hello/context1" -> "plain"
         [] OTHER -> "app"

\* The wrapper a route's handler runs in: "mw" is transactionMiddleware (on
\* the chain of every route of program 1), "thc" is TransactionHandlerC,
\* "app" is AppHandlerC, "plain" is xhandler.HandlerFuncC.
WrapperOf(p, rt) ==
  IF p = 1
  THEN "mw"
  ELSE CASE rt \in {"/api/echo/database", "/api/hello/context3", "/api/select/tran"} -> "thc"
         [] rt = "/api/hello/context1" -> "plain"
         [] OTHER -> "app"

Wrapper(r) == WrapperOf(prog, route[r])
Handler(r) == HandlerOf(prog, route[r])

\* Handlers that fetch the transaction with getTx and query through it.
TxHandlers == {"EchoDatabase1", "EchoDatabase", "hellotran", "tranSelect"}

----------------------------------------------------------------------------
(* http.ResponseWriter: wh is the sequence of status codes passed to       *)
(* WriteHeader (the first one is the status sent; later ones are ignored   *)
(* by net/http), body the sequence of things written, hdr the header names *)
(* set.                                                                    *)

EmptyResp == [wh |-> <<>>, body |-> <<>>, hdr |-> {}]

SetHeader(w, name) == [w EXCEPT !.hdr = @ \cup {name}]

WriteHeader(w, code) == [w EXCEPT !.wh = Append(@, code)]

\* Write sends an implicit WriteHeader(200) when no status was written yet.
Write(w, b) ==
  LET w1 == IF w.wh = <<>> THEN WriteHeader(w, StatusOK) ELSE w
  IN  [w1 EXCEPT !.body = Append(@, b)]

\* The status the client receives; 0 when no response was started.
Status(w) == IF w.wh = <<>> THEN 0 ELSE w.wh[1]

\* An error report that writes the message and forgets the status code.
HttpErrorNoStatus(w, msg, code) ==
  Write(SetHeader(w, "Content-Type"), <<"text", msg>>)

\* http.Error(w, msg, code): plain-text body msg with status code.
HttpError(w, msg, code) ==
  Write(WriteHeader(SetHeader(w, "Content-Type"), code), <<"text", msg>>)

sendSimpleErrorMessage(w, msg) ==
  Write(WriteHeader(w, StatusInternalServerError), <<"json", msg>>)

sendSimpleMessage(w, msg) ==
  Write(WriteHeader(w, StatusOK), <<"json", msg>>)

----------------------------------------------------------------------------
(* database/sql as the program uses it. *)

\* A Begin that hands out the transaction opened last, when there is one,
\* instead of a new one.
SharedHandle == IF txState = <<>> THEN Len(txState) + 1 ELSE Len(txState)

\* The handle DB.Begin returns on success: a transaction no one else holds.
NewHandle == Len(txState) + 1

\* getTx(ctx): ctx.Value(ctxTxKey).(*sql.Tx).  The type assertion panics
\* when the context holds no value under the key.
CtxValue(c, key) ==
  IF \E p \in c : p[1] = key THEN (CHOOSE p \in c : p[1] = key)[2] ELSE NoValue

\* context.WithValue(c, key, val): the new binding shadows an older one.
WithValue(c, key, val) == {p \in c : p[1] # key} \cup {<<key, val>>}

\* A getTx with the two-value type assertion: nil for a missing value.
getTxNilOnMissing(c) ==
  IF CtxValue(c, ctxTxKey) = NoValue THEN NilTx ELSE CtxValue(c, ctxTxKey)

getTx(c) == CtxValue(c, ctxTxKey)

\* tx.Rollback(): panics on the nil handle (nil pointer dereference), is a
\* no-op returning ErrTxDone on a finished transaction.
RollbackResult(h) ==
  IF h = NilTx THEN "panic"
  ELSE IF txState[h] = "Open" THEN "ok" ELSE "ErrTxDone"

\* tx.Commit(): as Rollback on a finished transaction; on an open one the
\* driver's answer decides (commitOk), and the transaction is over either way.
CommitResult(h, commitOk) ==
  IF h = NilTx THEN "panic"
  ELSE IF txState[h] # "Open" THEN "ErrTxDone"
  ELSE IF commitOk THEN "ok" ELSE "err"

\* The transaction table after a finalization call op by request r on h.
Finalized(h, newState) == [txState EXCEPT ![h] = newState]
Called(h, op, r, res) ==
  [txCalls EXCEPT ![h] = Append(@, [op |-> op, by |-> r, res |-> res])]

Init ==
  /\ prog \in {1, 2}
  /\ alive = TRUE
  /\ pc = [r \in Req |-> "idle"]
  /\ route = [r \in Req |-> ""]
  /\ tx = [r \in Req |-> Unset]
  /\ beginErr = [r \in Req |-> FALSE]
  /\ ctx = [r \in Req |-> {}]
  /\ seenTx = [r \in Req |-> Unset]
  /\ hres = [r \in Req |-> [status |-> 0, err |-> "nil"]]
  /\ panicking = [r \in Req |-> FALSE]
  /\ resp = [r \in Req |-> EmptyResp]
  /\ events = [r \in Req |-> <<>>]
  /\ txState = <<>>
  /\ txCalls = <<>>
  /\ cancelled = [r \in Req |-> "no"]

Log(r, e) == Append(events[r], e)

----------------------------------------------------------------------------
(* Where the goroutine of r continues once the handler function is over:   *)
(* by a return (panics = FALSE) or by a panic unwinding through the        *)
(* wrapper.                                                                *)
\* A transactionMiddleware that returns without calling tx.Commit().
AfterHandlerNoCommit(w, panics) ==
  CASE w = "thc"   -> IF panics THEN "deferred" ELSE "after"
    [] w = "app"   -> IF panics THEN "recover" ELSE "after"
    [] OTHER       -> "recover"

AfterHandler(w, panics) ==
  CASE w = "mw"    -> IF panics THEN "recover" ELSE "commit"
    [] w = "thc"   -> IF panics THEN "deferred" ELSE "after"
    [] w = "app"   -> IF panics THEN "recover" ELSE "after"
    [] OTHER       -> "recover"

\* A request arrives: recoverMiddleware and loggingMiddleware are entered,
\* program 1 then runs jsonResponseMiddleware, and the wrapper is reached.
Arrive(r) ==
  /\ alive
  /\ pc[r] = "idle"
  /\ \E rt \in Routes(prog) :
       /\ route' = [route EXCEPT ![r] = rt]
       /\ pc' = [pc EXCEPT ![r] =
                   IF WrapperOf(prog, rt) \in {"mw", "thc"} THEN "begin" ELSE "handler"]
  /\ resp' = [resp EXCEPT ![r] = IF prog = 1 THEN SetHeader(@, "Content-type") ELSE @]
  /\ UNCHANGED <<prog, alive, tx, beginErr, ctx, seenTx, hres, panicking, events,
                 txState, txCalls, cancelled>>

\* transactionMiddleware up to the call of next.ServeHTTPC.
MwBegin(r) ==
  /\ alive
  /\ pc[r] = "begin"
  /\ Wrapper(r) = "mw"
  /\ \E beginOk \in BOOLEAN :
       IF beginOk
       THEN /\ tx' = [tx EXCEPT ![r] = NewHandle]
            /\ txState' = Append(txState, "Open")
            /\ txCalls' = Append(txCalls, <<>>)
            /\ ctx' = [ctx EXCEPT ![r] = WithValue(@, ctxTxKey, NewHandle)]
            /\ events' = [events EXCEPT ![r] = Log(r, "begin_ok")]
            /\ pc' = [pc EXCEPT ![r] = "handler"]
            /\ UNCHANGED <<alive, beginErr>>
       ELSE \* log.Fatal(err): os.Exit(1), the whole process ends
            /\ tx' = [tx EXCEPT ![r] = NilTx]
            /\ beginErr' = [beginErr EXCEPT ![r] = TRUE]
            /\ events' = [events EXCEPT ![r] = Log(r, "begin_fail")]
            /\ alive' = FALSE
            /\ UNCHANGED <<txState, txCalls, ctx, pc>>
  /\ UNCHANGED <<prog, route, seenTx, hres, panicking, resp, cancelled>>

\* A TransactionHandlerC.ServeHTTPC whose tx.Rollback() lost its defer and
\* runs at once, before the handler.
ThcBeginNoDefer(r) ==
  /\ alive
  /\ pc[r] = "begin"
  /\ Wrapper(r) = "thc"
  /\ tx' = [tx EXCEPT ![r] = NewHandle]
  /\ txState' = Append(txState, "RolledBack")
  /\ txCalls' = Append(txCalls, <<[op |-> "Rollback", by |-> r, res |-> "ok"]>>)
  /\ ctx' = [ctx EXCEPT ![r] = WithValue(@, ctxTxKey, NewHandle)]
  /\ events' = [events EXCEPT ![r] = Log(r, "begin_ok") \o <<"rollback">>]
  /\ pc' = [pc EXCEPT ![r] = "handler"]
  /\ UNCHANGED <<prog, alive, route, beginErr, resp, seenTx, hres, panicking, cancelled>>

\* TransactionHandlerC.ServeHTTPC up to the call of ah.H.  The deferred
\* tx.Rollback() binds the receiver tx[r], which is never reassigned.
ThcBegin(r) ==
  /\ alive
  /\ pc[r] = "begin"
  /\ Wrapper(r) = "thc"
  /\ \E beginOk \in BOOLEAN :
       IF beginOk
       THEN /\ tx' = [tx EXCEPT ![r] = NewHandle]
            /\ txState' = Append(txState, "Open")
            /\ txCalls' = Append(txCalls, <<>>)
            /\ ctx' = [ctx EXCEPT ![r] = WithValue(@, ctxTxKey, NewHandle)]
            /\ events' = [events EXCEPT ![r] = Log(r, "begin_ok")]
            /\ UNCHANGED <<beginErr, resp>>
       ELSE \* http.Error, and no return: execution goes on with the nil tx
            /\ tx' = [tx EXCEPT ![r] = NilTx]
            /\ beginErr' = [beginErr EXCEPT ![r] = TRUE]
            /\ resp' = [resp EXCEPT ![r] =
                          HttpError(@, "begin_error", StatusInternalServerError)]
            /\ ctx' = [ctx EXCEPT ![r] = WithValue(@, ctxTxKey, NilTx)]
            /\ events' = [events EXCEPT ![r] = Log(r, "begin_fail")]
            /\ UNCHANGED <<txState, txCalls>>
  /\ pc' = [pc EXCEPT ![r] = "handler"]
  /\ UNCHANGED <<prog, alive, route, seenTx, hres, panicking, cancelled>>

----------------------------------------------------------------------------
(* The handler functions.  A handler that queries the database runs in two *)
(* steps: HandlerInvoke up to the database round trip, HandlerQuery from   *)
(* the answer of the database to the end of the function.                  *)

\* The function is over: by a return, or by a panic when panics is TRUE.
HandlerOver(r, panics) ==
  /\ panicking' = [panicking EXCEPT ![r] = panics]
  /\ pc' = [pc EXCEPT ![r] = AfterHandler(Wrapper(r), panics)]

HandlerInvoke(r) ==
  /\ alive
  /\ pc[r] = "handler"
  /\ LET h == Handler(r) IN
     CASE h \in TxHandlers ->
            \* tx := getTx(ctx)
            /\ seenTx' = [seenTx EXCEPT ![r] = getTx(ctx[r])]
            /\ IF getTx(ctx[r]) = NoValue
               THEN /\ events' = [events EXCEPT ![r] =
                                    Log(r, "handler_start") \o <<"handler_panic">>]
                    /\ HandlerOver(r, TRUE)
               ELSE /\ events' = [events EXCEPT ![r] = Log(r, "handler_start")]
                    /\ pc' = [pc EXCEPT ![r] = "query"]
                    /\ UNCHANGED panicking
            /\ UNCHANGED <<resp, hres>>
       [] h = "notranSelect" ->
            /\ events' = [events EXCEPT ![r] = Log(r, "handler_start")]
            /\ pc' = [pc EXCEPT ![r] = "query"]
            /\ UNCHANGED <<seenTx, panicking, resp, hres>>
       [] h = "EchoServer1" ->
            /\ resp' = [resp EXCEPT ![r] = sendSimpleMessage(@, "hello, server!")]
            /\ events' = [events EXCEPT ![r] =
                            Log(r, "handler_start") \o <<"handler_return">>]
            /\ HandlerOver(r, FALSE)
            /\ UNCHANGED <<seenTx, hres>>
       [] h = "helloctx" ->
            /\ resp' = [resp EXCEPT ![r] = Write(@, <<"text", "hello, world!">>)]
            /\ events' = [events EXCEPT ![r] =
                            Log(r, "handler_start") \o <<"handler_return">>]
            /\ HandlerOver(r, FALSE)
            /\ UNCHANGED <<seenTx, hres>>
       [] OTHER ->
            \* EchoServer, helloret: write the greeting, return (200, nil)
            /\ resp' = [resp EXCEPT ![r] =
                  Write(@, <<"text", IF h = "EchoServer" THEN "hello, server!"
                                                       ELSE "hello, world!">>)]
            /\ hres' = [hres EXCEPT ![r] = [status |-> StatusOK, err |-> "nil"]]
            /\ events' = [events EXCEPT ![r] =
                            Log(r, "handler_start") \o <<"handler_return">>]
            /\ HandlerOver(r, FALSE)
            /\ UNCHANGED seenTx
  /\ UNCHANGED <<prog, alive, route, tx, beginErr, ctx, txState, txCalls, cancelled>>

\* The outcomes of QueryRow("SELECT now()").Scan(&t): a row, an error, or a
\* fault (panic) during the round trip.  On the nil handle QueryRow
\* dereferences nil and panics.
QueryOutcomes(r) ==
  IF Handler(r) \in TxHandlers /\ seenTx[r] = NilTx
  THEN {"fault"}
  ELSE {"ok", "err", "fault"}

HandlerQuery(r) ==
  /\ alive
  /\ pc[r] = "query"
  /\ \E out \in QueryOutcomes(r) :
       CASE out = "fault" ->
              /\ events' = [events EXCEPT ![r] = Log(r, "handler_panic")]
              /\ HandlerOver(r, TRUE)
              /\ UNCHANGED <<resp, hres>>
         [] out = "err" ->
              /\ IF Handler(r) = "EchoDatabase1"
                 THEN /\ resp' = [resp EXCEPT ![r] =
                                    sendSimpleErrorMessage(@, "failed to access db")]
                      /\ UNCHANGED hres
                 ELSE /\ hres' = [hres EXCEPT ![r] =
                            [status |-> StatusInternalServerError, err |-> "query_error"]]
                      /\ UNCHANGED resp
              /\ events' = [events EXCEPT ![r] =
                              Log(r, "query_err") \o <<"handler_return">>]
              /\ HandlerOver(r, FALSE)
         [] OTHER ->
              /\ IF Handler(r) = "EchoDatabase1"
                 THEN /\ resp' = [resp EXCEPT ![r] =
                            sendSimpleMessage(
                              WriteHeader(SetHeader(@, "EchoDatabase"), StatusOK),
                              "hello, database!")]
                      /\ UNCHANGED hres
                 ELSE /\ resp' = [resp EXCEPT ![r] =
                                    Write(@, <<"text", "hello, database!">>)]
                      /\ hres' = [hres EXCEPT ![r] =
                                    [status |-> StatusOK, err |-> "nil"]]
              /\ events' = [events EXCEPT ![r] = Log(r, "handler_return")]
              /\ HandlerOver(r, FALSE)
  /\ UNCHANGED <<prog, alive, route, tx, beginErr, ctx, seenTx, txState, txCalls, cancelled>>

----------------------------------------------------------------------------
(* After the handler. *)

\* AppHandlerC.ServeHTTPC and TransactionHandlerC.ServeHTTPC after the
\* handler returned: an error is written with the returned status.
WrapperError(r) ==
  /\ alive
  /\ pc[r] = "after"
  /\ resp' = [resp EXCEPT ![r] =
                IF hres[r].err # "nil" THEN HttpError(@, hres[r].err, hres[r].status)
                                       ELSE @]
  /\ pc' = [pc EXCEPT ![r] = IF Wrapper(r) = "thc" THEN "deferred" ELSE "recover"]
  /\ UNCHANGED <<prog, alive, route, tx, beginErr, ctx, seenTx, hres, panicking,
                 events, txState, txCalls, cancelled>>

\* The deferred tx.Rollback() of TransactionHandlerC.ServeHTTPC, run when
\* the function returns or a panic unwinds through it.
ThcDeferredRollback(r) ==
  /\ alive
  /\ pc[r] = "deferred"
  /\ LET h == tx[r]
         res == RollbackResult(h)
     IN  /\ events' = [events EXCEPT ![r] = Log(r, "rollback")]
         /\ IF res = "panic"
            THEN /\ panicking' = [panicking EXCEPT ![r] = TRUE]
                 /\ UNCHANGED <<txState, txCalls>>
            ELSE /\ txState' = IF res = "ok" THEN Finalized(h, "RolledBack") ELSE txState
                 /\ txCalls' = Called(h, "Rollback", r, res)
                 /\ UNCHANGED panicking
  /\ pc' = [pc EXCEPT ![r] = "recover"]
  /\ UNCHANGED <<prog, alive, route, tx, beginErr, ctx, seenTx, hres, resp, cancelled>>

\* transactionMiddleware after next.ServeHTTPC returned: the Request-id
\* header is set and tx.Commit() is called, its result dropped.  A commit
\* the database refuses ends the transaction without its effects.
MwCommit(r) ==
  /\ alive
  /\ pc[r] = "commit"
  /\ resp' = [resp EXCEPT ![r] = SetHeader(@, "Request-id")]
  /\ \E commitOk \in BOOLEAN :
       LET h == tx[r]
           res == CommitResult(h, commitOk)
       IN  /\ txState' = CASE res = "ok"  -> Finalized(h, "Committed")
                            [] res = "err" -> Finalized(h, "RolledBack")
                            [] OTHER       -> txState
           /\ txCalls' = Called(h, "Commit", r, res)
  /\ events' = [events EXCEPT ![r] = Log(r, "commit")]
  /\ pc' = [pc EXCEPT ![r] = "recover"]
  /\ UNCHANGED <<prog, alive, route, tx, beginErr, ctx, seenTx, hres, panicking, cancelled>>

\* The deferred function of recoverMiddleware; loggingMiddleware only logs.
Recover(r) ==
  /\ alive
  /\ pc[r] = "recover"
  /\ IF panicking[r]
     THEN /\ resp' = [resp EXCEPT ![r] =
                Write(WriteHeader(SetHeader(@, "Content-type"), StatusInternalServerError),
                      <<"json", "internal error">>)]
          /\ events' = [events EXCEPT ![r] = Log(r, "recovered")]
     ELSE UNCHANGED <<resp, events>>
  /\ panicking' = [panicking EXCEPT ![r] = FALSE]
  /\ pc' = [pc EXCEPT ![r] = "done"]
  /\ UNCHANGED <<prog, alive, route, tx, beginErr, ctx, seenTx, hres, txState, txCalls,
                 cancelled>>

\* The client of request r goes away (or its deadline passes) while the
\* request is being served.  Nothing in the program observes it.
ClientDisconnect(r) ==
  /\ alive
  /\ pc[r] \notin {"idle", "done"}
  /\ cancelled[r] = "no"
  /\ cancelled' = [cancelled EXCEPT ![r] =
        IF tx[r] > NilTx /\ txState[tx[r]] = "Open" THEN "holding" ELSE "not holding"]
  /\ UNCHANGED <<prog, alive, pc, route, tx, beginErr, ctx, seenTx, hres, panicking,
                 resp, events, txState, txCalls>>

Next ==
  \E r \in Req :
    \/ Arrive(r)
    \/ MwBegin(r)
    \/ ThcBegin(r)
    \/ HandlerInvoke(r)
    \/ HandlerQuery(r)
    \/ WrapperError(r)
    \/ ThcDeferredRollback(r)
    \/ MwCommit(r)
    \/ Recover(r)

Spec == Init /\ [][Next]_vars

\* The same program with clients that may go away while being served.
NextCancel == Next \/ \E r \in Req : ClientDisconnect(r)

SpecCancel == Init /\ [][NextCancel]_vars

----------------------------------------------------------------------------
(* Vocabulary of the properties. *)

Has(r, e) == \E i \in 1..Len(events[r]) : events[r][i] = e

\* The request was dispatched through one of the two transaction wrappers.
Wrapped(r) == pc[r] # "idle" /\ Wrapper(r) \in {"mw", "thc"}

\* Begin gave the request a transaction.
BeginOk(r) == tx[r] > NilTx

\* The request ended: ServeHTTP returned to net/http.
Over(r) == pc[r] = "done"

\* The handler function returned, and reported no error / an error.
HandlerSucceeded(r) == Has(r, "handler_return") /\ ~Has(r, "query_err")
HandlerFailed(r) == Has(r, "handler_return") /\ Has(r, "query_err")

\* Number of calls of op ("Commit" or "Rollback") issued on handle h.
CallsOf(h, op) == Cardinality({i \in 1..Len(txCalls[h]) : txCalls[h][i].op = op})

\* Number of calls on h that ended the transaction (Rollback or Commit on
\* the open transaction; a call on a finished one returns ErrTxDone).
Finalizations(h) ==
  Cardinality({i \in 1..Len(txCalls[h]) : txCalls[h][i].res \in {"ok", "err"}})

----------------------------------------------------------------------------
\* C1: a wrapped request whose Begin succeeded and whose handler returned
\* no error has had its transaction committed exactly once and never rolled
\* back when it ends.
C1_CommitOnSuccess ==
  \A r \in Req :
    (Wrapped(r) /\ Over(r) /\ BeginOk(r) /\ HandlerSucceeded(r))
      => /\ CallsOf(tx[r], "Commit") = 1
         /\ CallsOf(tx[r], "Rollback") = 0

\* C2: a wrapped request whose Begin succeeded and whose handler reported
\* an error has had its transaction rolled back exactly once and never
\* committed when it ends.
C2_RollbackOnError ==
  \A r \in Req :
    (Wrapped(r) /\ Over(r) /\ BeginOk(r) /\ HandlerFailed(r))
      => /\ CallsOf(tx[r], "Rollback") = 1
         /\ CallsOf(tx[r], "Commit") = 0

\* C3: a wrapped request whose handler panicked after the transaction was
\* opened ends with the transaction rolled back exactly once, never with
\* the transaction still open.
C3_RollbackOnPanic ==
  \A r \in Req :
    (Wrapped(r) /\ Over(r) /\ BeginOk(r) /\ Has(r, "handler_panic"))
      => /\ txState[tx[r]] = "RolledBack"
         /\ CallsOf(tx[r], "Rollback") = 1

\* C4: when Begin fails, the wrapped handler is never invoked for that
\* request.
C4_NoHandlerAfterBeginFailure ==
  \A r \in Req : beginErr[r] => ~Has(r, "handler_start")

\* C5: when Begin fails, the client has received status 500 once the
\* request is over (its goroutine ended or the process ended).
C5_BeginFailureIs500 ==
  \A r \in Req :
    (beginErr[r] /\ (Over(r) \/ ~alive))
      => Status(resp[r]) = StatusInternalServerError

\* C6: when the handler succeeded and the commit returned an error, the
\* response of the request is an internal server error, not a success.
C6_CommitFailureIs500 ==
  \A r \in Req :
    (Wrapped(r) /\ Over(r) /\ BeginOk(r) /\ HandlerSucceeded(r)
       /\ \E i \in 1..Len(txCalls[tx[r]]) :
            /\ txCalls[tx[r]][i].op = "Commit"
            /\ txCalls[tx[r]][i].res = "err")
      => Status(resp[r]) = StatusInternalServerError

----------------------------------------------------------------------------
BeginEvents == {"begin_ok", "begin_fail"}
HandlerEndEvents == {"handler_return", "handler_panic"}
FinalEvents == {"commit", "rollback"}

\* C7: in a wrapped request Begin comes first, the handler starts only
\* after Begin has completed, and commit or rollback happens only after the
\* handler has returned or panicked.
C7_BeginHandlerFinalizeOrder ==
  \A r \in Req :
    Wrapped(r) =>
      \A i \in 1..Len(events[r]) :
        /\ events[r][i] \in BeginEvents => i = 1
        /\ events[r][i] = "handler_start" =>
              \E j \in 1..(i-1) : events[r][j] \in BeginEvents
        /\ events[r][i] \in FinalEvents =>
              \E j \in 1..(i-1) : events[r][j] \in HandlerEndEvents
        /\ events[r][i] \in HandlerEndEvents =>
              \E j \in 1..(i-1) : events[r][j] = "handler_start"

\* A wrapped request went through Begin, its handler and a finalization.
C7_Witness ==
  \E r \in Req :
    /\ Wrapped(r) /\ Over(r) /\ BeginOk(r)
    /\ Has(r, "handler_return")
    /\ (Has(r, "commit") \/ Has(r, "rollback"))

----------------------------------------------------------------------------
\* One step of the transaction table: a handle, once handed out, stays; a
\* new handle starts Open; a state changes only from Open to Committed or
\* RolledBack; no call is made on a transaction that is already finished.
TxStep ==
  /\ Len(txState') >= Len(txState)
  /\ Len(txCalls') = Len(txState')
  /\ \A h \in 1..Len(txState') :
       IF h \in 1..Len(txState)
       THEN /\ txState'[h] # txState[h] =>
                 txState[h] = "Open" /\ txState'[h] \in {"Committed", "RolledBack"}
            /\ txState[h] # "Open" => txCalls'[h] = txCalls[h]
            /\ txCalls'[h] # txCalls[h] =>
                 \E r \in Req :
                   tx[r] = h /\ (Has(r, "handler_return") \/ Has(r, "handler_panic"))
       ELSE txState'[h] = "Open" /\ txCalls'[h] = <<>>

\* A request whose handler returned has, when it ends, had exactly one
\* commit or rollback applied to its transaction.
OneFinalization ==
  \A r \in Req :
    (Wrapped(r) /\ BeginOk(r)) =>
      /\ Finalizations(tx[r]) <= 1
      /\ Len(txCalls[tx[r]]) <= 1
      /\ (txState[tx[r]] = "Open") = (Finalizations(tx[r]) = 0)
      /\ (Over(r) /\ Has(r, "handler_return")) => Finalizations(tx[r]) = 1

\* C8: a request's transaction goes NotStarted -> Open -> Committed or
\* RolledBack only; after the handler returns exactly one of commit and
\* rollback is applied, once; a Committed or RolledBack transaction is never
\* changed or finalized again.
C8_TxLifecycle == []OneFinalization /\ [][TxStep]_vars

\* A request ended after its handler returned, its transaction finalized.
C8_Witness ==
  \E r \in Req :
    /\ Wrapped(r) /\ Over(r) /\ BeginOk(r) /\ Has(r, "handler_return")
    /\ txState[tx[r]] \in {"Committed", "RolledBack"}

----------------------------------------------------------------------------
\* C9: every request has the handle of its own Begin: the handler reads
\* through getTx the handle its wrapper opened, two requests never hold the
\* same handle, and a handle is finalized by the request that opened it only.
C9_OwnTransaction ==
  /\ \A r \in Req :
       /\ seenTx[r] # Unset => seenTx[r] = tx[r]
       /\ BeginOk(r) => tx[r] \in 1..Len(txState)
       /\ ctx[r] \subseteq {<<ctxTxKey, tx[r]>>}
  /\ \A r1, r2 \in Req : (r1 # r2 /\ BeginOk(r1) /\ BeginOk(r2)) => tx[r1] # tx[r2]
  /\ \A h \in 1..Len(txCalls) :
       \A i \in 1..Len(txCalls[h]) : tx[txCalls[h][i].by] = h

\* Two requests are inside their handlers at once, each with a transaction.
C9_Witness ==
  \E r1, r2 \in Req :
    /\ r1 # r2
    /\ pc[r1] = "query" /\ pc[r2] = "query"
    /\ BeginOk(r1) /\ BeginOk(r2)
    /\ seenTx[r1] = tx[r1] /\ seenTx[r2] = tx[r2]

----------------------------------------------------------------------------
\* C10: a request whose client went away while it held an open transaction
\* ends with that transaction rolled back and never committed.
C10_RollbackOnCancel ==
  \A r \in Req :
    (Over(r) /\ cancelled[r] = "holding")
      => txState[tx[r]] = "RolledBack"

----------------------------------------------------------------------------
\* The part of the wrapper that writes the handler's error has run.
ErrorWritten(r) ==
  /\ Wrapper(r) \in {"app", "thc"}
  /\ pc[r] \in {"deferred", "recover", "done"}
  /\ Has(r, "handler_return")

\* C11: when a handler run by AppHandlerC or TransactionHandlerC returned a
\* non-nil error, the response has the returned status code and its body is
\* the error's message.
C11_ErrorResponse ==
  \A r \in Req :
    (ErrorWritten(r) /\ hres[r].err # "nil")
      => /\ Status(resp[r]) = hres[r].status
         /\ resp[r].body = << <<"text", hres[r].err>> >>

\* A request ended after its handler returned an error to its wrapper.
C11_Witness ==
  \E r \in Req :
    /\ Over(r) /\ ErrorWritten(r)
    /\ hres[r].err = "query_error"
    /\ hres[r].status = StatusInternalServerError

\* C12: when a handler run by AppHandlerC or TransactionHandlerC returned
\* (status, nil), the status sent to the client is the returned status.
C12_SuccessStatus ==
  \A r \in Req :
    (pc[r] # "idle" /\ Wrapper(r) \in {"app", "thc"}
       /\ Has(r, "handler_return") /\ hres[r].err = "nil")
      => Status(resp[r]) = hres[r].status

\* A request ended after its handler returned (200, nil).
C12_Witness ==
  \E r \in Req :
    /\ Over(r) /\ Wrapper(r) \in {"app", "thc"}
    /\ Has(r, "handler_return")
    /\ hres[r] = [status |-> StatusOK, err |-> "nil"]

----------------------------------------------------------------------------
(* The handlers that call getTx, invoked directly on a context of any      *)
(* content: with no value at all, with a value under another key, with the *)
(* nil handle or an open transaction under ctxTxKey.  This is what a route *)
(* registered without a transaction wrapper does to them.                  *)

DirectContexts ==
  {{}, {<<"requestID", NilTx>>}} \cup {{<<ctxTxKey, h>>} : h \in NilTx..NumReq}

InitDirect ==
  /\ prog \in {1, 2}
  /\ alive = TRUE
  /\ pc = [r \in Req |-> "handler"]
  /\ route \in [Req -> {rt \in Routes(prog) : HandlerOf(prog, rt) \in TxHandlers}]
  /\ tx = [r \in Req |-> Unset]
  /\ beginErr = [r \in Req |-> FALSE]
  /\ ctx \in [Req -> DirectContexts]
  /\ seenTx = [r \in Req |-> Unset]
  /\ hres = [r \in Req |-> [status |-> 0, err |-> "nil"]]
  /\ panicking = [r \in Req |-> FALSE]
  /\ resp = [r \in Req |-> EmptyResp]
  /\ events = [r \in Req |-> <<>>]
  /\ txState = [h \in 1..NumReq |-> "Open"]
  /\ txCalls = [h \in 1..NumReq |-> <<>>]
  /\ cancelled = [r \in Req |-> "no"]

NextDirect == \E r \in Req : HandlerInvoke(r) \/ HandlerQuery(r)

SpecDirect == InitDirect /\ [][NextDirect]_vars

\* The context holds no value under ctxTxKey.
Unpopulated(c) == \A p \in c : p[1] # ctxTxKey

\* C13: a handler that calls getTx on a context holding no transaction
\* panics in getTx: it gets no handle, does not go on to its query, and has
\* written nothing to the response.
C13_GetTxPanics ==
  \A r \in Req :
    (Unpopulated(ctx[r]) /\ Has(r, "handler_start"))
      => /\ seenTx[r] = NoValue
         /\ panicking[r]
         /\ Has(r, "handler_panic")
         /\ pc[r] # "query"
         /\ resp[r].wh = <<>> /\ resp[r].body = <<>>

\* A handler was started on an empty context and panicked.
C13_Witness ==
  \E r \in Req :
    /\ ctx[r] = {}
    /\ Has(r, "handler_start") /\ Has(r, "handler_panic")
    /\ panicking[r]

----------------------------------------------------------------------------
\* The routes whose handler takes no transaction from its context.
C14_PlainRoutes ==
  {"/api/echo/server", "/api/hello/context1", "/api/hello/context2",
   "/api/select/notran"}

\* C14 as stated: a request to a route whose handler is registered without
\* a transaction wrapper (/api/echo/server, /api/select/notran, ...) never
\* begins a transaction, in either program.
C14_NoTxOnPlainRoutes ==
  \A r \in Req :
    route[r] \in C14_PlainRoutes
      => /\ tx[r] = Unset
         /\ ~Has(r, "begin_ok") /\ ~Has(r, "begin_fail")

\* The request never had a transaction and its context is empty.
NoTransaction(r) ==
  /\ tx[r] = Unset /\ ~beginErr[r] /\ ctx[r] = {}
  /\ \A i \in 1..Len(events[r]) : events[r][i] \notin BeginEvents \cup FinalEvents
  /\ \A h \in 1..Len(txCalls) : \A i \in 1..Len(txCalls[h]) : txCalls[h][i].by # r

\* A step of a request of program 2 to one of these routes leaves the
\* transactions as they are.
PlainRouteStep ==
  \A r \in Req :
    (prog = 2 /\ route'[r] \in C14_PlainRoutes /\ (pc'[r] # pc[r] \/ resp'[r] # resp[r]))
      => UNCHANGED <<txState, txCalls>>

\* C14 amended: in program 2 a request to a route registered with
\* AppHandlerC or HandlerFuncC never begins, commits or rolls back a
\* transaction, and none of its steps changes the transactions.
C14_PlainRoutesProgram2 ==
  /\ [](\A r \in Req : (prog = 2 /\ route[r] \in C14_PlainRoutes) => NoTransaction(r))
  /\ [][PlainRouteStep]_vars

\* A request to /api/select/notran ended while another request held an open
\* transaction.
C14_Witness ==
  \E r1, r2 \in Req :
    /\ prog = 2 /\ route[r1] = "/api/select/notran" /\ Over(r1)
    /\ Has(r1, "handler_return")
    /\ BeginOk(r2) /\ txState[tx[r2]] = "Open"

----------------------------------------------------------------------------
\* C15: the status line of a response is written at most once: WriteHeader
\* (directly, through http.Error or through the first Write) runs at most
\* once per request.
C15_StatusWrittenOnce ==
  \A r \in Req : Len(resp[r].wh) <= 1

\* C16: a Begin failure, a handler error or a handler panic in one request
\* does not end the server process.
C16_ProcessSurvives ==
  \A r \in Req :
    (beginErr[r] \/ Has(r, "query_err") \/ Has(r, "handler_panic")) => alive

\* C17: when Begin returned an error, no Commit or Rollback is run on the
\* nil handle and the nil handle is not stored in the handler's context.
C17_NoFinalizeOnNil ==
  \A r \in Req :
    beginErr[r]
      => /\ ~Has(r, "commit") /\ ~Has(r, "rollback")
         /\ <<ctxTxKey, NilTx>> \notin ctx[r]

====
